---- MODULE Spec2Model ----
(***************************************************************************)
(* Pump diagnosis tool: the per-domain analyzers (electrical, hydraulic,   *)
(* vibration) and the mechanical aggregation, as a state machine whose     *)
(* state is the module-level lookup tables plus the frame of the last      *)
(* call (entry point, arguments, outcome).                                 *)
(*                                                                         *)
(* Units.  Vibration amplitudes are integers in 0.001 mm/s, so 2.8 mm/s is *)
(* 2800 and a value "rounded to 2 decimals" is a multiple of 10.  NPSH     *)
(* heads are integers in 0.01 m.  Imbalance and load percentages are       *)
(* integers in 0.01 %.                                                     *)
(***************************************************************************)
EXTENDS Integers, Sequences, FiniteSets, TLC

VARIABLES lookup_tables, op, args, result

vars == <<lookup_tables, op, args, result>>

(***************************** bounds **************************************)
\* NPSHa inputs are 0.25 m * (0..MaxNpsha), i.e. 0 m .. 10 m.
MaxNpsha == 40
\* Amplitudes fed to calculate_average_vibration: 1.000 + 0.005*i mm/s.
MaxFine == 3
\* Averages fed to the zone/fault classifiers lie within Eps*0.01 mm/s of a breakpoint.
Eps == 1
\* Amplitudes fed to generate_vibration_report: 6.0*i mm/s, i \in 0..MaxLevel.
MaxLevel == 2
\* Drive-end amplitudes fed to analyze_mechanical_conditions: 6.0*i mm/s.
MaxMechLevel == 2

(*************************** reference data ********************************)
ISO_LIMITS ==
    [ rigid    |-> [zone_a_max |-> 2800, zone_b_max |-> 4500,
                    zone_c_max |-> 7100, zone_d_min |-> 7100],
      flexible |-> [zone_a_max |-> 4500, zone_b_max |-> 7100,
                    zone_c_max |-> 11200, zone_d_min |-> 11200] ]

PUMP_SIZE_DEFAULTS ==
    [ Small  |-> [npshr |-> 300, bep_flow |-> 30,  fla |-> 15],
      Medium |-> [npshr |-> 450, bep_flow |-> 100, fla |-> 30],
      Large  |-> [npshr |-> 600, bep_flow |-> 250, fla |-> 60] ]

FAULT_MAPPING ==
    [ H |-> "Unbalance",
      V |-> "Mechanical Looseness / Foundation Issue",
      A |-> "Misalignment / Coupling Issue" ]

\* The module-level tables of config.py, as the process holds them.
Tables ==
    [ ISO_LIMITS |-> ISO_LIMITS,
      PUMP_SIZE_DEFAULTS |-> PUMP_SIZE_DEFAULTS,
      FAULT_MAPPING |-> FAULT_MAPPING ]

(*************************** call outcomes *********************************)
None == "None"

\* A call that returned value v.
Return(v) == [raised |-> None, returned |-> v]

\* A call that raised exception e before returning anything.
Raise(e) == [raised |-> e, returned |-> None]

\* d[k] on a Python dict: KeyError when k is not a key.
HasKey(d, k) == k \in DOMAIN d

(************************ electrical_analysis.py ***************************)
\* Pump sizes a caller may pass: the three profiles and one that is no profile.
PumpSizeArgs == {"Small", "Medium", "Large", "XL"}

Tiers == {"NORMAL", "WARNING", "ALARM"}
LoadStatuses == {"UNDERLOAD", "NORMAL", "OVERLOAD_WARNING", "OVERLOAD_ALARM"}

\* What calculate_voltage_imbalance / calculate_current_imbalance hand back:
\* (imbalance %, tier).  0 %, 2.63 % (scenario A) and 6 %.
ImbalanceResults == {[pct |-> p, status |-> s] : p \in {0, 263, 600}, s \in Tiers}

\* What calculate_load_percentage hands back: (load %, load status).
LoadResults == {[pct |-> 10000, status |-> s] : s \in LoadStatuses}

\* Mutant: the UNDERLOAD branch forgotten.
electrical_overall_status_no_underload(v_status, i_status, load_status) ==
    IF v_status = "ALARM" \/ i_status = "ALARM" \/ load_status = "OVERLOAD_ALARM"
    THEN "CRITICAL"
    ELSE IF v_status = "WARNING" \/ i_status = "WARNING" \/ load_status = "OVERLOAD_WARNING"
    THEN "WARNING"
    ELSE "NORMAL"

electrical_overall_status(v_status, i_status, load_status) ==
    IF v_status = "ALARM" \/ i_status = "ALARM" \/ load_status = "OVERLOAD_ALARM"
    THEN "CRITICAL"
    ELSE IF v_status = "WARNING" \/ i_status = "WARNING" \/ load_status = "OVERLOAD_WARNING"
    THEN "WARNING"
    ELSE IF load_status = "UNDERLOAD"
    THEN "WARNING"
    ELSE "NORMAL"

electrical_recommendations(v, i, load) ==
    LET r1 == IF v.pct > 200 THEN <<"voltage imbalance > 2%">> ELSE <<>>
        r2 == IF i.pct > 500 THEN <<"current imbalance > 5%">> ELSE <<>>
        r3 == IF load.status = "OVERLOAD_WARNING" THEN <<"motor load > 110% FLA">>
              ELSE IF load.status = "OVERLOAD_ALARM" THEN <<"CRITICAL: motor load > 125% FLA">>
              ELSE IF load.status = "UNDERLOAD" THEN <<"motor underload < 80% FLA">>
              ELSE <<>>
        recs == r1 \o r2 \o r3
    IN  IF recs = <<>> THEN <<"electrical parameters within normal range">> ELSE recs

\* Mutant: the lookup falls back to the Medium profile instead of raising.
pump_size_lookup_with_default(tables, pump_size) ==
    IF HasKey(tables.PUMP_SIZE_DEFAULTS, pump_size)
    THEN Return(tables.PUMP_SIZE_DEFAULTS[pump_size])
    ELSE Return(tables.PUMP_SIZE_DEFAULTS["Medium"])

\* PUMP_SIZE_DEFAULTS[pump_size]
pump_size_lookup(tables, pump_size) ==
    IF HasKey(tables.PUMP_SIZE_DEFAULTS, pump_size)
    THEN Return(tables.PUMP_SIZE_DEFAULTS[pump_size])
    ELSE Raise("KeyError")

\* v, i, load: what calculate_voltage_imbalance, calculate_current_imbalance and
\* calculate_load_percentage (utils.calculations) handed back.  The per-phase
\* values and their averages, which the assessment only passes through, are left out.
analyze_electrical_conditions(tables, pump_size, v, i, load) ==
    LET profile == pump_size_lookup(tables, pump_size)
    IN  IF profile.raised # None THEN Raise(profile.raised)
        ELSE LET overall_status == electrical_overall_status(v.status, i.status, load.status)
             IN  Return([ voltage |-> [imbalance_pct |-> v.pct, status |-> v.status],
                          current |-> [imbalance_pct |-> i.pct, status |-> i.status],
                          load |-> [fla |-> profile.returned.fla,
                                    percentage |-> load.pct, status |-> load.status],
                          overall_status |-> overall_status,
                          recommendations |-> electrical_recommendations(v, i, load),
                          has_issue |-> overall_status # "NORMAL" ])

AnalyzeElectrical ==
    /\ op = "idle"
    /\ \E pump_size \in PumpSizeArgs, v \in ImbalanceResults, i \in ImbalanceResults,
       load \in LoadResults :
        /\ op' = "analyze_electrical_conditions"
        /\ args' = [pump_size |-> pump_size, v |-> v, i |-> i, load |-> load]
        /\ result' = analyze_electrical_conditions(lookup_tables, pump_size, v, i, load)
    /\ UNCHANGED lookup_tables

(************************* hydraulic_analysis.py ***************************)
safety_margin == 100

NpshaArgs == {25 * k : k \in 0..MaxNpsha}

FlowStatuses == {"RECIRCULATION_RISK", "NORMAL", "OVERLOAD_CAVITATION_RISK"}

\* Mutant: the HIGH band closed at the boundary (<= instead of <).
cavitation_risk_inclusive(npsha_margin) ==
    IF npsha_margin <= 0 THEN "HIGH"
    ELSE IF npsha_margin < 100 THEN "MEDIUM"
    ELSE "LOW"

cavitation_risk(npsha_margin) ==
    IF npsha_margin < 0 THEN "HIGH"
    ELSE IF npsha_margin < 100 THEN "MEDIUM"
    ELSE "LOW"

cavitation_status(risk) ==
    IF risk = "HIGH" THEN "CRITICAL: NPSHa < NPSHr + safety margin"
    ELSE IF risk = "MEDIUM" THEN "WARNING: Low NPSHa margin"
    ELSE "NPSHa adequate"

flow_recommendation(flow_status) ==
    IF flow_status = "RECIRCULATION_RISK"
    THEN "Flow < 60% BEP - risk of recirculation & vibration"
    ELSE IF flow_status = "OVERLOAD_CAVITATION_RISK"
    THEN "Flow > 120% BEP - risk of cavitation & overload"
    ELSE "Flow within acceptable range"

\* npsha, flow_status: what calculate_npsha and calculate_flow_ratio handed back.
\* head, flow_rate and flow_ratio, which the assessment only passes through, are
\* left out; round(npsha_margin, 2) changes nothing on the 0.01 m grid.
analyze_hydraulic_conditions(tables, pump_size, npsha, flow_status) ==
    LET profile == pump_size_lookup(tables, pump_size)
    IN  IF profile.raised # None THEN Raise(profile.raised)
        ELSE LET npshr == profile.returned.npshr
                 npsha_margin == npsha - (npshr + safety_margin)
                 risk == cavitation_risk(npsha_margin)
             IN  Return([ npsha |-> npsha,
                          npshr |-> npshr,
                          npsha_margin |-> npsha_margin,
                          cavitation_risk |-> risk,
                          cavitation_status |-> cavitation_status(risk),
                          bep_flow |-> profile.returned.bep_flow,
                          flow_status |-> flow_status,
                          flow_recommendation |-> flow_recommendation(flow_status),
                          has_issue |-> (risk # "LOW" \/ flow_status # "NORMAL") ])

AnalyzeHydraulic ==
    /\ op = "idle"
    /\ \E pump_size \in PumpSizeArgs, npsha \in NpshaArgs, flow_status \in FlowStatuses :
        /\ op' = "analyze_hydraulic_conditions"
        /\ args' = [pump_size |-> pump_size, npsha |-> npsha, flow_status |-> flow_status]
        /\ result' = analyze_hydraulic_conditions(lookup_tables, pump_size, npsha, flow_status)
    /\ UNCHANGED lookup_tables

(************************* vibration_analysis.py ***************************)
directions == <<"H", "V", "A">>

\* f"DE_{direction}", f"NDE_{direction}", f"Avr_{direction}", f"Zone_{direction}",
\* f"fault_{direction}"
DE_KEY == [H |-> "DE_H", V |-> "DE_V", A |-> "DE_A"]
NDE_KEY == [H |-> "NDE_H", V |-> "NDE_V", A |-> "NDE_A"]
AVR_KEY == [H |-> "Avr_H", V |-> "Avr_V", A |-> "Avr_A"]

\* dict.get(key, default)
Get(d, key, default) == IF key \in DOMAIN d THEN d[key] ELSE default

\* round(x, 2) of x = twice/2: the nearest multiple of 0.01.  When x lies exactly
\* halfway in decimal, the float that stands for x is a hair below or above the
\* midpoint and round() follows the float, so either neighbour can come out.
Round2(twice) ==
    LET q == twice \div 20
        r == twice % 20
    IN  IF r < 10 THEN {10 * q}
        ELSE IF r > 10 THEN {10 * (q + 1)}
        ELSE {10 * q, 10 * (q + 1)}

\* Mutant: the division by 2 forgotten.
axis_average_sum(vibration_data, direction) ==
    LET de_value == Get(vibration_data, DE_KEY[direction], 0)
        nde_value == Get(vibration_data, NDE_KEY[direction], 0)
    IN  Round2(2 * (de_value + nde_value))

\* The values round((de_value + nde_value) / 2, 2) can take.
axis_average(vibration_data, direction) ==
    LET de_value == Get(vibration_data, DE_KEY[direction], 0)
        nde_value == Get(vibration_data, NDE_KEY[direction], 0)
    IN  Round2(de_value + nde_value)

\* max() of a non-empty collection of numbers
MaxOf(S) == CHOOSE x \in S : \A y \in S : y <= x

\* The averages dicts the call can return (one, unless an average is a rounding tie).
calculate_average_vibration(vibration_data) ==
    { [Avr_H |-> h, Avr_V |-> v, Avr_A |-> a, Overall_Max |-> MaxOf({h, v, a})] :
        h \in axis_average(vibration_data, "H"),
        v \in axis_average(vibration_data, "V"),
        a \in axis_average(vibration_data, "A") }

\* utils.calculations.get_zone_classification
get_zone_classification(tables, avg_value, foundation_type) ==
    LET limits == tables.ISO_LIMITS[foundation_type]
    IN  IF avg_value <= limits.zone_a_max THEN "A"
        ELSE IF avg_value <= limits.zone_b_max THEN "B"
        ELSE IF avg_value <= limits.zone_c_max THEN "C"
        ELSE "D"

\* utils.calculations.get_zone_description
get_zone_description(zone) ==
    [ A |-> [name |-> "Good", color |-> "green",
             recommendation |-> "No action required"],
      B |-> [name |-> "Acceptable", color |-> "yellow",
             recommendation |-> "Continue monitoring"],
      C |-> [name |-> "Unsatisfactory", color |-> "orange",
             recommendation |-> "Plan corrective maintenance"],
      D |-> [name |-> "Damaging", color |-> "red",
             recommendation |-> "Stop and repair"] ][zone]

zone_entry(tables, averages, direction, foundation_type) ==
    LET avg_value == Get(averages, AVR_KEY[direction], 0)
        zone == get_zone_classification(tables, avg_value, foundation_type)
        zone_desc == get_zone_description(zone)
    IN  [zone |-> zone, name |-> zone_desc.name, color |-> zone_desc.color,
         recommendation |-> zone_desc.recommendation]

\* Mutant: the foundation type is not passed on, so the default "rigid" applies.
classify_vibration_zones_rigid_only(tables, averages, foundation_type) ==
    [ Zone_H |-> zone_entry(tables, averages, "H", "rigid"),
      Zone_V |-> zone_entry(tables, averages, "V", "rigid"),
      Zone_A |-> zone_entry(tables, averages, "A", "rigid") ]

classify_vibration_zones(tables, averages, foundation_type) ==
    [ Zone_H |-> zone_entry(tables, averages, "H", foundation_type),
      Zone_V |-> zone_entry(tables, averages, "V", foundation_type),
      Zone_A |-> zone_entry(tables, averages, "A", foundation_type) ]

\* Python's max(iterable, key=...): the first element whose key is the largest.
RECURSIVE PyMaxFold(_, _, _)
PyMaxFold(seq, key, best) ==
    IF seq = <<>> THEN best
    ELSE PyMaxFold(Tail(seq), key,
                   IF key[Head(seq)] > key[best] THEN Head(seq) ELSE best)

PyMax(seq, key) == PyMaxFold(Tail(seq), key, Head(seq))

\* The last element whose key is the largest.
RECURSIVE PyMaxLastFold(_, _, _)
PyMaxLastFold(seq, key, best) ==
    IF seq = <<>> THEN best
    ELSE PyMaxLastFold(Tail(seq), key,
                       IF key[Head(seq)] >= key[best] THEN Head(seq) ELSE best)

\* Mutant: ties go to the last axis instead of the first.
max_direction_last(averages) ==
    LET key == [d \in {"H", "V", "A"} |-> Get(averages, AVR_KEY[d], 0)]
    IN  PyMaxLastFold(Tail(directions), key, Head(directions))

max_direction(averages) ==
    PyMax(directions, [d \in {"H", "V", "A"} |-> Get(averages, AVR_KEY[d], 0)])

fault_entry(tables, averages, direction) ==
    LET avg_value == Get(averages, AVR_KEY[direction], 0)
    IN  [type |-> tables.FAULT_MAPPING[direction],
         confidence |-> IF avg_value > 4500 THEN "HIGH"
                        ELSE IF avg_value > 2800 THEN "MEDIUM" ELSE "LOW"]

identify_fault_indicators(tables, averages) ==
    [ primary_fault |-> tables.FAULT_MAPPING[max_direction(averages)],
      primary_direction |-> max_direction(averages),
      fault_H |-> fault_entry(tables, averages, "H"),
      fault_V |-> fault_entry(tables, averages, "V"),
      fault_A |-> fault_entry(tables, averages, "A") ]

\* The source writes the first parameter as `vibration_ Dict`; the body reads
\* vibration_data, which is what the parameter is taken to be (here and in
\* generate_vibration_report).
analyze_hf_vibration(vibration_data, product_type) ==
    LET hf_value == Get(vibration_data, "HF_5_16kHz", 0)
        demod_value == Get(vibration_data, "Demodulation", 0)
        cavitation_threshold ==
            IF product_type \in {"Gasoline", "Avtur", "Naphtha"} THEN 300 ELSE 500
    IN  [ hf_value |-> hf_value,
          demod_value |-> demod_value,
          cavitation_risk |-> IF hf_value > cavitation_threshold THEN "HIGH" ELSE "LOW",
          bearing_defect_risk |-> IF demod_value > 500 THEN "HIGH" ELSE "LOW",
          recommendation |->
              IF hf_value > cavitation_threshold
              THEN "High-frequency vibration indicates cavitation risk. Verify NPSHa."
              ELSE IF demod_value > 500
              THEN "Demodulation signal indicates early bearing defect."
              ELSE "HF vibration within normal range." ]

\* ["A", "B", "C", "D"].index(z)
ZoneIndex == [A |-> 0, B |-> 1, C |-> 2, D |-> 3]

\* Mutant: the axial direction left out of the overall assessment.
report_overall_zone_no_axial(zones) ==
    PyMax(<<zones.Zone_H.zone, zones.Zone_V.zone>>, ZoneIndex)

report_overall_zone(zones) ==
    PyMax(<<zones.Zone_H.zone, zones.Zone_V.zone, zones.Zone_A.zone>>, ZoneIndex)

\* The reports the call can return (one per averages dict).
generate_vibration_report(tables, vibration_data, foundation_type, product_type) ==
    { LET zones == classify_vibration_zones(tables, averages, foundation_type)
          overall_zone == report_overall_zone(zones)
      IN  [ averages |-> averages,
            zones |-> zones,
            faults |-> identify_fault_indicators(tables, averages),
            hf_analysis |-> analyze_hf_vibration(vibration_data, product_type),
            overall_zone |-> overall_zone,
            severity |-> get_zone_description(overall_zone).name,
            recommendation |-> get_zone_description(overall_zone).recommendation ] :
        averages \in calculate_average_vibration(vibration_data) }

(* inputs *)
AxisKeys == {"DE_H", "NDE_H", "DE_V", "NDE_V", "DE_A", "NDE_A"}

FoundationTypes == {"rigid", "flexible"}

FineAmps == {1000 + 5 * k : k \in 0..MaxFine}

Breakpoints == {ISO_LIMITS[f][z] : f \in FoundationTypes,
                                   z \in {"zone_a_max", "zone_b_max", "zone_c_max"}}

ZoneAvgs == {0} \cup {b + 10 * k : b \in Breakpoints, k \in (0 - Eps)..Eps}

AveragesArgs == {[Avr_H |-> h, Avr_V |-> v, Avr_A |-> a] : h, v, a \in ZoneAvgs}

ReportAmps == {6000 * k : k \in 0..MaxLevel}

\* A reading with and one without the high-frequency keys.
HfParts == {<<>>, [HF_5_16kHz |-> 400, Demodulation |-> 600]}

HfReadings == {[HF_5_16kHz |-> hf, Demodulation |-> dm] :
                  hf \in {200, 300, 400, 500, 600}, dm \in {400, 500, 600}}
              \cup {<<>>}

ProductTypes == {"Gasoline", "Diesel", "Avtur", "Naphtha"}

CalculateAverageVibration ==
    /\ op = "idle"
    /\ \E vibration_data \in [AxisKeys -> FineAmps] :
         \E averages \in calculate_average_vibration(vibration_data) :
            /\ op' = "calculate_average_vibration"
            /\ args' = [vibration_data |-> vibration_data]
            /\ result' = Return(averages)
    /\ UNCHANGED lookup_tables

ClassifyVibrationZones ==
    /\ op = "idle"
    /\ \E averages \in AveragesArgs, foundation_type \in FoundationTypes :
            /\ op' = "classify_vibration_zones"
            /\ args' = [averages |-> averages, foundation_type |-> foundation_type]
            /\ result' = Return(classify_vibration_zones(lookup_tables, averages,
                                                         foundation_type))
    /\ UNCHANGED lookup_tables

IdentifyFaultIndicators ==
    /\ op = "idle"
    /\ \E averages \in AveragesArgs :
            /\ op' = "identify_fault_indicators"
            /\ args' = [averages |-> averages]
            /\ result' = Return(identify_fault_indicators(lookup_tables, averages))
    /\ UNCHANGED lookup_tables

AnalyzeHfVibration ==
    /\ op = "idle"
    /\ \E vibration_data \in HfReadings, product_type \in ProductTypes :
            /\ op' = "analyze_hf_vibration"
            /\ args' = [vibration_data |-> vibration_data, product_type |-> product_type]
            /\ result' = Return(analyze_hf_vibration(vibration_data, product_type))
    /\ UNCHANGED lookup_tables

GenerateVibrationReport ==
    /\ op = "idle"
    /\ \E axes \in [AxisKeys -> ReportAmps], hf \in HfParts,
          foundation_type \in FoundationTypes, product_type \in {"Diesel", "Gasoline"} :
         \E report \in generate_vibration_report(lookup_tables, axes @@ hf,
                                                 foundation_type, product_type) :
            /\ op' = "generate_vibration_report"
            /\ args' = [vibration_data |-> axes @@ hf,
                        foundation_type |-> foundation_type,
                        product_type |-> product_type]
            /\ result' = Return(report)
    /\ UNCHANGED lookup_tables

(************************* mechanical_analysis.py **************************)
\* Mutant: a tie in Overall_Max goes to the driver (>= instead of >).
primary_is_driver_on_tie(driver_max, driven_max) == driver_max >= driven_max

\* driver_max > driven_max
primary_is_driver(driver_max, driven_max) == driver_max > driven_max

\* Mutant: the driven unit's zone left out of the overall zone.
mechanical_overall_zone_driver_only(driver_report, driven_report) ==
    PyMax(<<driver_report.overall_zone>>, ZoneIndex)

mechanical_overall_zone(driver_report, driven_report) ==
    PyMax(<<driver_report.overall_zone, driven_report.overall_zone>>, ZoneIndex)

\* A recommendation string; zone is the zone letter formatted into it, if any.
Rec(msg, zone) == [msg |-> msg, zone |-> zone]

MotorZoneWarning(zone) ==
    Rec("Motor vibration Zone {zone} - check coupling alignment & rotor balance", zone)

PumpZoneWarning(zone) ==
    Rec("Pump vibration Zone {zone} - check impeller balance & bearing condition", zone)

AlignmentAction == Rec("Primary fault: Misalignment - perform laser alignment", None)

BalancingAction == Rec("Primary fault: Unbalance - perform dynamic balancing", None)

FoundationAction ==
    Rec("Primary fault: Mechanical looseness - check foundation bolts & grouting", None)

WithinLimits == Rec("Mechanical vibration within acceptable limits", None)

mechanical_recommendations(driver_report, driven_report, primary_component_report) ==
    LET r1 == IF driver_report.overall_zone \in {"C", "D"}
              THEN <<MotorZoneWarning(driver_report.overall_zone)>> ELSE <<>>
        r2 == IF driven_report.overall_zone \in {"C", "D"}
              THEN <<PumpZoneWarning(driven_report.overall_zone)>> ELSE <<>>
        primary_fault == primary_component_report.faults.primary_fault
        r3 == IF primary_fault = "Misalignment" THEN <<AlignmentAction>>
              ELSE IF primary_fault = "Unbalance" THEN <<BalancingAction>>
              ELSE IF primary_fault = "Mechanical Looseness / Foundation Issue"
              THEN <<FoundationAction>>
              ELSE <<>>
        recommendations == r1 \o r2 \o r3
    IN  IF recommendations = <<>> THEN <<WithinLimits>> ELSE recommendations

\* The assessments the call can return (one per pair of unit reports).
analyze_mechanical_conditions(tables, vibration_driver, vibration_driven, foundation_type, product_type) ==
    { LET driver_max == driver_report.averages.Overall_Max
          driven_max == driven_report.averages.Overall_Max
          driver_primary == primary_is_driver(driver_max, driven_max)
          primary_component == IF driver_primary THEN "Motor (Driver)" ELSE "Pump (Driven)"
          primary_component_report == IF driver_primary THEN driver_report ELSE driven_report
          overall_zone == mechanical_overall_zone(driver_report, driven_report)
      IN  [ driver |-> driver_report,
            driven |-> driven_report,
            primary_component |-> primary_component,
            overall_zone |-> overall_zone,
            overall_severity |-> primary_component_report.severity,
            primary_fault |-> primary_component_report.faults.primary_fault,
            recommendations |-> mechanical_recommendations(driver_report, driven_report,
                                                           primary_component_report),
            has_issue |-> (overall_zone \in {"C", "D"}) ] :
        driver_report \in generate_vibration_report(tables, vibration_driver,
                                                    foundation_type, product_type),
        driven_report \in generate_vibration_report(tables, vibration_driven,
                                                    foundation_type, product_type) }

\* Unit readings: each drive-end amplitude a level of its own, the three
\* non-drive-end amplitudes alike; no high-frequency keys.
MechReadings ==
    { [DE_H |-> 6000 * l["H"], NDE_H |-> n,
       DE_V |-> 6000 * l["V"], NDE_V |-> n,
       DE_A |-> 6000 * l["A"], NDE_A |-> n] :
        l \in [{"H", "V", "A"} -> 0..MaxMechLevel], n \in {0, 6000} }

AnalyzeMechanical ==
    /\ op = "idle"
    /\ \E vibration_driver \in MechReadings, vibration_driven \in MechReadings,
          foundation_type \in FoundationTypes :
         \E assessment \in analyze_mechanical_conditions(lookup_tables, vibration_driver,
                                vibration_driven, foundation_type, "Diesel") :
            /\ op' = "analyze_mechanical_conditions"
            /\ args' = [vibration_driver |-> vibration_driver,
                        vibration_driven |-> vibration_driven,
                        foundation_type |-> foundation_type,
                        product_type |-> "Diesel"]
            /\ result' = Return(assessment)
    /\ UNCHANGED lookup_tables

(*************************** specification *********************************)
Init ==
    /\ lookup_tables = Tables
    /\ op = "idle"
    /\ args = None
    /\ result = Return(None)

\* The caller takes the outcome of the call; the next call starts from scratch.
CallerTakesResult ==
    /\ op # "idle"
    /\ op' = "idle"
    /\ args' = None
    /\ result' = Return(None)
    /\ UNCHANGED lookup_tables

Next ==
    \/ AnalyzeElectrical
    \/ AnalyzeHydraulic
    \/ CalculateAverageVibration
    \/ ClassifyVibrationZones
    \/ IdentifyFaultIndicators
    \/ AnalyzeHfVibration
    \/ GenerateVibrationReport
    \/ AnalyzeMechanical
    \/ CallerTakesResult

Spec == Init /\ [][Next]_vars

(******************************* claims ************************************)
\* The last call was entry point o and it returned (it did not raise).
Returned(o) == op = o /\ result.raised = None

TierRank == [NORMAL |-> 0, WARNING |-> 1, ALARM |-> 2]

LoadRank == [UNDERLOAD |-> 1, NORMAL |-> 0, OVERLOAD_WARNING |-> 1, OVERLOAD_ALARM |-> 2]

OverallRank == [NORMAL |-> 0, WARNING |-> 1, CRITICAL |-> 2]

\* C1: whatever the voltage tier, current tier and load status, the overall_status
\* of analyze_electrical_conditions is CRITICAL if any of the three is
\* ALARM/OVERLOAD_ALARM, otherwise WARNING if any is WARNING/OVERLOAD_WARNING or
\* the load is UNDERLOAD, otherwise NORMAL: it is the maximum severity of the three
\* sub-metrics and never lower than any of them.
C1_OverallStatusIsMaxSeverity ==
    Returned("analyze_electrical_conditions") =>
        LET r == result.returned
            v == r.voltage.status
            i == r.current.status
            l == r.load.status
            o == r.overall_status
        IN  /\ v = args.v.status /\ i = args.i.status /\ l = args.load.status
            /\ (o = "CRITICAL") <=> ("ALARM" \in {v, i} \/ l = "OVERLOAD_ALARM")
            /\ (o = "NORMAL") <=> (v = "NORMAL" /\ i = "NORMAL" /\ l = "NORMAL")
            /\ o \in {"NORMAL", "WARNING", "CRITICAL"}
            /\ OverallRank[o] = MaxOf({TierRank[v], TierRank[i], LoadRank[l]})

\* C1 witness: scenario A (voltage imbalance 2.63 % WARNING, current NORMAL, load
\* NORMAL on a Medium pump) came out WARNING.
C1_Witness ==
    /\ Returned("analyze_electrical_conditions")
    /\ args.pump_size = "Medium"
    /\ args.v = [pct |-> 263, status |-> "WARNING"]
    /\ args.i = [pct |-> 0, status |-> "NORMAL"]
    /\ args.load.status = "NORMAL"
    /\ result.returned.overall_status = "WARNING"

\* C2: for every NPSHa and pump size, cavitation_risk is HIGH iff
\* npsha < npshr + 1.0; at npsha = npshr + 1.0 it is MEDIUM; it is MEDIUM for
\* npshr + 1.0 <= npsha < npshr + 2.0 and LOW otherwise.
C2_CavitationRiskBands ==
    Returned("analyze_hydraulic_conditions") =>
        LET npsha == args.npsha
            npshr == PUMP_SIZE_DEFAULTS[args.pump_size].npshr
            risk == result.returned.cavitation_risk
        IN  /\ (risk = "HIGH") <=> (npsha < npshr + 100)
            /\ (npsha = npshr + 100) => (risk = "MEDIUM")
            /\ (risk = "MEDIUM") <=> (npshr + 100 <= npsha /\ npsha < npshr + 200)
            /\ (risk = "LOW") <=> (npsha >= npshr + 200)

\* C2 witness: a Medium pump (NPSHr 4.5 m) at exactly NPSHa = 5.5 m was rated MEDIUM.
C2_Witness ==
    /\ Returned("analyze_hydraulic_conditions")
    /\ args.pump_size = "Medium"
    /\ args.npsha = 550
    /\ result.returned.npsha_margin = 0
    /\ result.returned.cavitation_risk = "MEDIUM"

ZoneOf(d) == result.returned[[H |-> "Zone_H", V |-> "Zone_V", A |-> "Zone_A"][d]].zone

\* C3: for a fixed foundation type the per-axis zone of classify_vibration_zones is
\* monotone non-decreasing in the axis average under A<B<C<D; an average exactly at
\* zone_a_max, zone_b_max or zone_c_max is classified A, B, C respectively; zone D
\* is returned only for an average strictly above zone_c_max.
C3_ZonesMonotoneAndInclusive ==
    Returned("classify_vibration_zones") =>
        LET limits == ISO_LIMITS[args.foundation_type]
            avg(d) == args.averages[AVR_KEY[d]]
            D3 == {"H", "V", "A"}
        IN  /\ \A d1, d2 \in D3 :
                  avg(d1) <= avg(d2) => ZoneIndex[ZoneOf(d1)] <= ZoneIndex[ZoneOf(d2)]
            /\ \A d \in D3 :
                  /\ avg(d) = limits.zone_a_max => ZoneOf(d) = "A"
                  /\ avg(d) = limits.zone_b_max => ZoneOf(d) = "B"
                  /\ avg(d) = limits.zone_c_max => ZoneOf(d) = "C"
                  /\ ZoneOf(d) = "D" => avg(d) > limits.zone_c_max

\* C3 witness: on a flexible foundation, averages of exactly 4.5 and 11.2 mm/s were
\* classified A and C next to an average of 11.21 mm/s classified D.
C3_Witness ==
    /\ Returned("classify_vibration_zones")
    /\ args.foundation_type = "flexible"
    /\ args.averages = [Avr_H |-> 4500, Avr_V |-> 11200, Avr_A |-> 11210]
    /\ ZoneOf("H") = "A" /\ ZoneOf("V") = "C" /\ ZoneOf("A") = "D"

AxisOrders ==
    { <<"H", "V", "A">>, <<"H", "A", "V">>, <<"V", "H", "A">>,
      <<"V", "A", "H">>, <<"A", "H", "V">>, <<"A", "V", "H">> }

\* C4: the overall_zone of generate_vibration_report is the most severe (A<B<C<D)
\* of Zone_H, Zone_V, Zone_A of the same report, whatever the order in which the
\* three axes are evaluated.
C4_OverallZoneIsWorstAxis ==
    Returned("generate_vibration_report") =>
        LET zones == result.returned.zones
            z == [H |-> zones.Zone_H.zone, V |-> zones.Zone_V.zone, A |-> zones.Zone_A.zone]
            overall == result.returned.overall_zone
        IN  /\ overall \in {z["H"], z["V"], z["A"]}
            /\ \A d \in {"H", "V", "A"} : ZoneIndex[z[d]] <= ZoneIndex[overall]
            /\ \A o \in AxisOrders :
                  PyMax(<<z[o[1]], z[o[2]], z[o[3]]>>, ZoneIndex) = overall

\* C4 witness: a report whose axial zone alone is D has overall_zone D.
C4_Witness ==
    /\ Returned("generate_vibration_report")
    /\ result.returned.zones.Zone_H.zone = "A"
    /\ result.returned.zones.Zone_V.zone = "B"
    /\ result.returned.zones.Zone_A.zone = "D"
    /\ result.returned.overall_zone = "D"

\* Position of an axis in the axis table ["H", "V", "A"].
AxisPos == [H |-> 1, V |-> 2, A |-> 3]

\* C5: primary_direction of identify_fault_indicators is an axis whose average is
\* the largest of Avr_H, Avr_V, Avr_A, H before V before A when the largest value is
\* shared, and primary_fault is the fault mapped from that axis; all-equal averages
\* give H.
C5_PrimaryDirectionIsFirstArgmax ==
    Returned("identify_fault_indicators") =>
        LET avg(d) == args.averages[AVR_KEY[d]]
            p == result.returned.primary_direction
            D3 == {"H", "V", "A"}
        IN  /\ p \in D3
            /\ \A d \in D3 : avg(d) <= avg(p)
            /\ \A d \in D3 : AxisPos[d] < AxisPos[p] => avg(d) < avg(p)
            /\ result.returned.primary_fault = FAULT_MAPPING[p]
            /\ (avg("H") = avg("V") /\ avg("V") = avg("A")) => p = "H"

\* C5 witness: V and A shared the largest average above H and V was named, with
\* the looseness fault.
C5_Witness ==
    /\ Returned("identify_fault_indicators")
    /\ args.averages = [Avr_H |-> 2800, Avr_V |-> 4500, Avr_A |-> 4500]
    /\ result.returned.primary_direction = "V"
    /\ result.returned.primary_fault = "Mechanical Looseness / Foundation Issue"

\* The report of the unit analyze_mechanical_conditions named as primary component.
PrimaryReport ==
    IF result.returned.primary_component = "Motor (Driver)"
    THEN result.returned.driver ELSE result.returned.driven

\* The remedial action the mechanical recommendations owe to a dominant axis.
FaultAction == [A |-> AlignmentAction, H |-> BalancingAction, V |-> FoundationAction]

\* C6: the recommendations of analyze_mechanical_conditions are, in this order, the
\* motor zone warning iff the driver overall zone is C or D, the pump zone warning
\* iff the driven overall zone is C or D, and then exactly one remedial action for
\* the dominant component's primary fault: alignment check for Misalignment (axis A
\* dominant), dynamic balancing for Unbalance (H), foundation/bolting check for
\* Looseness (V).
C6_RecommendationsInOrder ==
    Returned("analyze_mechanical_conditions") =>
        LET driver_zone == result.returned.driver.overall_zone
            driven_zone == result.returned.driven.overall_zone
            motor == IF driver_zone \in {"C", "D"}
                     THEN <<MotorZoneWarning(driver_zone)>> ELSE <<>>
            pump == IF driven_zone \in {"C", "D"}
                    THEN <<PumpZoneWarning(driven_zone)>> ELSE <<>>
            action == FaultAction[PrimaryReport.faults.primary_direction]
        IN  result.returned.recommendations = motor \o pump \o <<action>>

\* C7: the driver is primary_component iff its Overall_Max is strictly greater than
\* the driven unit's; on a tie or a larger driven value the driven unit is, and
\* primary_fault is the primary fault of the unit so chosen.
C7_PrimaryComponentStrictlyGreater ==
    Returned("analyze_mechanical_conditions") =>
        LET r == result.returned
            driver_max == r.driver.averages.Overall_Max
            driven_max == r.driven.averages.Overall_Max
        IN  /\ (r.primary_component = "Motor (Driver)") <=> (driver_max > driven_max)
            /\ (r.primary_component = "Pump (Driven)") <=> (driver_max <= driven_max)
            /\ r.primary_fault = (IF driver_max > driven_max
                                  THEN r.driver.faults.primary_fault
                                  ELSE r.driven.faults.primary_fault)

\* C7 witness: driver and driven tied on a non-zero Overall_Max with different
\* dominant axes, and the pump with its own fault was named.
C7_Witness ==
    /\ Returned("analyze_mechanical_conditions")
    /\ result.returned.driver.averages.Overall_Max = 6000
    /\ result.returned.driven.averages.Overall_Max = 6000
    /\ result.returned.driver.faults.primary_direction = "H"
    /\ result.returned.driven.faults.primary_direction = "V"
    /\ result.returned.primary_component = "Pump (Driven)"
    /\ result.returned.primary_fault = "Mechanical Looseness / Foundation Issue"

\* C8 as claimed: for all non-negative DE_X, NDE_X, with more than 2 decimals too,
\* min(DE_X, NDE_X) <= Avr_X <= max(DE_X, NDE_X), and Overall_Max is the largest of
\* the three Avr_X.
C8_AverageBetweenEndsAsClaimed ==
    Returned("calculate_average_vibration") =>
        LET data == args.vibration_data
            averages == result.returned
        IN  /\ \A d \in {"H", "V", "A"} :
                  LET de == data[DE_KEY[d]]
                      nde == data[NDE_KEY[d]]
                      avr == averages[AVR_KEY[d]]
                  IN  (IF de <= nde THEN de ELSE nde) <= avr
                      /\ avr <= (IF de <= nde THEN nde ELSE de)
            /\ averages.Overall_Max
                   = MaxOf({averages.Avr_H, averages.Avr_V, averages.Avr_A})

\* C8 amended: Avr_X is a multiple of 0.01 within 0.005 of (DE_X + NDE_X)/2, so it
\* lies between min(DE_X, NDE_X) - 0.005 and max(DE_X, NDE_X) + 0.005, and between
\* min and max themselves when DE_X and NDE_X carry at most 2 decimals; Overall_Max
\* is the largest of the three Avr_X.
C8_AverageWithinRounding ==
    Returned("calculate_average_vibration") =>
        LET data == args.vibration_data
            averages == result.returned
        IN  /\ \A d \in {"H", "V", "A"} :
                  LET de == data[DE_KEY[d]]
                      nde == data[NDE_KEY[d]]
                      lo == IF de <= nde THEN de ELSE nde
                      hi == IF de <= nde THEN nde ELSE de
                      avr == averages[AVR_KEY[d]]
                  IN  /\ avr % 10 = 0
                      /\ 2 * avr - (de + nde) <= 10
                      /\ (de + nde) - 2 * avr <= 10
                      /\ lo - 5 <= avr /\ avr <= hi + 5
                      /\ (de % 10 = 0 /\ nde % 10 = 0) => (lo <= avr /\ avr <= hi)
            /\ averages.Overall_Max
                   = MaxOf({averages.Avr_H, averages.Avr_V, averages.Avr_A})

\* C8 witness: DE_H = NDE_H = 1.005 averaged to 1.00, below both, while the
\* 2-decimal pair DE_V = 1.00, NDE_V = 1.01 averaged to 1.00 and DE_A = NDE_A = 1.01
\* to 1.01, which is Overall_Max.
C8_Witness ==
    /\ Returned("calculate_average_vibration")
    /\ args.vibration_data.DE_H = 1005 /\ args.vibration_data.NDE_H = 1005
    /\ result.returned.Avr_H = 1000
    /\ args.vibration_data.DE_V = 1000 /\ args.vibration_data.NDE_V = 1010
    /\ result.returned.Avr_V = 1000
    /\ args.vibration_data.DE_A = 1010 /\ args.vibration_data.NDE_A = 1010
    /\ result.returned.Avr_A = 1010
    /\ result.returned.Overall_Max = 1010

ElectricalAssessmentKeys ==
    {"voltage", "current", "load", "overall_status", "recommendations", "has_issue"}

\* How analyze_electrical_conditions ends for a pump size, failing with exception
\* `exception` when the size is no profile.
ElectricalOutcome(exception) ==
    op = "analyze_electrical_conditions" =>
        /\ lookup_tables = Tables
        /\ IF args.pump_size \in {"Small", "Medium", "Large"}
           THEN /\ result.raised = None
                /\ DOMAIN result.returned = ElectricalAssessmentKeys
                /\ result.returned.load.fla = PUMP_SIZE_DEFAULTS[args.pump_size].fla
           ELSE /\ result.raised = exception
                /\ result.returned = None

C10_OverallZoneIsPrimaryZone ==
    Returned("analyze_mechanical_conditions") =>
        LET r == result.returned
        IN  /\ r.overall_zone = PrimaryReport.overall_zone
            /\ ZoneIndex[r.overall_zone] >= ZoneIndex[r.driver.overall_zone]
            /\ ZoneIndex[r.overall_zone] >= ZoneIndex[r.driven.overall_zone]
            /\ r.overall_severity = get_zone_description(r.overall_zone).name
            /\ r.has_issue <=> (r.overall_zone \in {"C", "D"})

\* C10 witness: the pump in zone D next to a motor in zone B: the pump is primary,
\* overall_zone is D with its severity name, and has_issue is true.
C10_Witness ==
    /\ Returned("analyze_mechanical_conditions")
    /\ result.returned.driver.overall_zone = "B"
    /\ result.returned.driven.overall_zone = "D"
    /\ result.returned.primary_component = "Pump (Driven)"
    /\ result.returned.overall_zone = "D"
    /\ result.returned.overall_severity = "Damaging"
    /\ result.returned.has_issue

====
